---------------------------- MODULE Spec2Model ----------------------------
(***************************************************************************)
(* A model of src/tensortools.py: the Tensor class (a numeric array that   *)
(* is also a node of a computation graph and the holder of a backward      *)
(* closure), its operators, and the trace() walk of draw_function.         *)
(*                                                                         *)
(* Objects live in an arena: `tensors` is the sequence of all Tensor       *)
(* objects ever constructed and an object's identity is its index.         *)
(* Numbers are float64 values: exact where float64 is exact, with signed   *)
(* zeros, infinities and nan, and named by their computation where         *)
(* float64 rounds (see Scalars).                                           *)
(***************************************************************************)
EXTENDS Integers, Sequences, FiniteSets, TLC

(***************************************************************************)
(* Bounds of the model.                                                    *)
(***************************************************************************)
MaxTensors == 3
TravMaxTensors == 4
TraceMaxTensors == 4

(***************************************************************************)
(* Scalars: the float64 values.                                            *)
(*   <<n, d>>, d > 0, n # 0   the number n/d in lowest terms, d a power of *)
(*                            two, |n| and d below 2^31                    *)
(*   <<0, 1>>, <<0, -1>>      0.0 and -0.0                                 *)
(*   <<1, 0>>, <<-1, 0>>      inf and -inf                                 *)
(*   <<0, 0>>                 nan                                          *)
(*   <<op, x, y>>             a name: the float64 that the operation op    *)
(*                            yields on x and y.  A result is named when   *)
(*                            the model does not evaluate it: where        *)
(*                            float64 rounds (exp, the reciprocal of a     *)
(*                            number that is no power of two), where the   *)
(*                            exact result has a numerator or denominator  *)
(*                            above Big, and where an operand is a name.   *)
(* Two equal values of the model are the same float64.  Two different      *)
(* names may be the same float64, and a name may be any float64, zero, an  *)
(* infinity or nan included, unless Bound shows otherwise: what is known   *)
(* of a name is what Bound derives, and the operations use it to resolve a *)
(* result that is certain (x - x, 0 * x, inf + x, overflow, underflow).    *)
(***************************************************************************)
Abs(n) == IF n < 0 THEN -n ELSE n

Max(a, b) == IF a >= b THEN a ELSE b
Min(a, b) == IF a <= b THEN a ELSE b

RECURSIVE Gcd(_, _)
Gcd(a, b) == IF b = 0 THEN a ELSE Gcd(b, a % b)

\* n/d in lowest terms, for n # 0 and d > 0
Norm(n, d) ==
    IF d = 1 THEN <<n, 1>>
    ELSE LET g == Gcd(Abs(n), d)
         IN  <<n \div g, d \div g>>

R(n) == <<n, 1>>

NaN == <<0, 0>>
Rounded(op, x, y) == <<op, x, y>>

\* the forms of a value
IsRounded(x) == Len(x) = 3
ExactNaN(x) == x = NaN
ExactInf(x) == ~IsRounded(x) /\ x[2] = 0 /\ x[1] # 0
ExactZero(x) == ~IsRounded(x) /\ x[1] = 0 /\ x[2] # 0
ExactNum(x) == ~IsRounded(x) /\ x[1] # 0 /\ x[2] > 0

\* the sign bit of a value that is neither nan nor a name
Sign(x) == IF x[1] < 0 \/ x[2] < 0 THEN -1 ELSE 1

\* the exact arithmetic of the model: a sum is evaluated when its terms, on
\* the common denominator, are below Big, a product and a power when the
\* numerator and the denominator of the result are at most Big
Big == 2^30

RECURSIVE BitLen(_)
BitLen(n) == IF n = 0 THEN 0 ELSE 1 + BitLen(n \div 2)

\* floor(log2 |n/d|) of an exact number
FloorLog2(x) == BitLen(Abs(x[1])) - BitLen(x[2])

\* the exponents of the smallest subnormal and of the first power of two
\* above every finite float64
MinExp == -1074
MaxExp == 1024

(***************************************************************************)
(* What is certain of a value x, derived from its form:                    *)
(*   Bound(x).fin   x is finite (not an infinity, not nan), |x| <= 2^hi    *)
(*   Bound(x).ok    x is finite and not zero, 2^lo <= |x| <= 2^hi          *)
(*   Bound(x).sg    the sign of x, or 0 when it is not known               *)
(* Nothing is certain of the infinities and nan (they are exact values and *)
(* are told by their form) and of a name whose operands give no bounds.    *)
(***************************************************************************)
NoBound == [fin |-> FALSE, ok |-> FALSE, sg |-> 0, lo |-> 0, hi |-> 0]

\* a finite value, not zero when nz, given bounds that may be out of range
Bounded(nz, sg, lo, hi) ==
    IF hi > MaxExp - 1 THEN NoBound
    ELSE [fin |-> TRUE, ok |-> nz /\ sg # 0 /\ lo >= MinExp /\ lo <= hi,
          sg |-> sg, lo |-> lo, hi |-> hi]

ZeroBound(sg) == [fin |-> TRUE, ok |-> FALSE, sg |-> sg, lo |-> 0, hi |-> MinExp - 2]

\* log2(e) lies between Log2e[1] / Log2e[3] and Log2e[2] / Log2e[3]
Log2e == <<14426, 14427, 10000>>

\* exp of an exact number x between ExpMin and ExpMax, q <= x < q + 1
ExpBoundExact(x) ==
    LET q == x[1] \div x[2]
        lo == (q * (IF q >= 0 THEN Log2e[1] ELSE Log2e[2])) \div Log2e[3]
        hi == ((q + 1) * (IF q >= 0 THEN Log2e[2] ELSE Log2e[1])) \div Log2e[3] + 1
    IN  [fin |-> TRUE, ok |-> TRUE, sg |-> 1,
         lo |-> Max(lo, MinExp), hi |-> Min(hi, MaxExp)]

\* exp of a name x, |x| <= 2^hi <= 512
ExpBoundName(a) ==
    LET e == IF a.hi <= 0 THEN 2 ELSE (2^a.hi * Log2e[2]) \div Log2e[3] + 1
    IN  IF ~a.fin \/ a.hi > 9 THEN NoBound
        ELSE [fin |-> TRUE, ok |-> TRUE, sg |-> 1,
              lo |-> IF a.ok /\ a.sg > 0 THEN 0 ELSE -e,
              hi |-> IF a.ok /\ a.sg < 0 THEN 0 ELSE e]

MulBound(a, b) ==
    IF a.fin /\ b.fin
    THEN Bounded(a.ok /\ b.ok, a.sg * b.sg, a.lo + b.lo, a.hi + b.hi)
    ELSE NoBound

\* a sum: of one sign, or one term outweighs the other, or the terms may
\* cancel
AddBound(a, b) ==
    LET hi == Max(a.hi, b.hi) + 1
    IN  IF ~a.fin \/ ~b.fin THEN NoBound
        ELSE IF a.ok /\ b.ok /\ a.sg = b.sg
        THEN Bounded(TRUE, a.sg, Max(Max(a.lo, b.lo), Min(a.lo, b.lo) + 1), hi)
        ELSE IF a.ok /\ b.ok /\ a.lo > b.hi THEN Bounded(TRUE, a.sg, a.lo - 1, a.hi)
        ELSE IF a.ok /\ b.ok /\ b.lo > a.hi THEN Bounded(TRUE, b.sg, b.lo - 1, b.hi)
        ELSE Bounded(FALSE, IF a.sg = b.sg THEN a.sg ELSE 0, 0, hi)

\* the largest exponent whose bounds are derived
MaxPow == 2^16

\* x ** k for k # 0, one more on each side for the rounding of pow
PowBound(a, k) ==
    IF Abs(k) > MaxPow THEN NoBound
    ELSE IF a.ok
    THEN Bounded(TRUE, IF k % 2 = 0 THEN 1 ELSE a.sg,
                 (IF k > 0 THEN k * a.lo ELSE k * a.hi) - 1,
                 (IF k > 0 THEN k * a.hi ELSE k * a.lo) + 1)
    ELSE IF a.fin /\ k > 0
    THEN Bounded(FALSE, IF k % 2 = 0 THEN 1 ELSE a.sg, 0, k * a.hi + 1)
    ELSE NoBound

RECURSIVE Bound(_)
Bound(x) ==
    IF ~IsRounded(x)
    THEN IF ExactNum(x)
         THEN [fin |-> TRUE, ok |-> TRUE, sg |-> Sign(x),
               lo |-> FloorLog2(x), hi |-> FloorLog2(x) + 1]
         ELSE IF ExactZero(x) THEN ZeroBound(Sign(x))
         ELSE NoBound
    ELSE CASE x[1] = "neg" -> [Bound(x[2]) EXCEPT !.sg = -@]
           [] x[1] = "exp" -> IF IsRounded(x[2]) THEN ExpBoundName(Bound(x[2]))
                              ELSE ExpBoundExact(x[2])
           [] x[1] = "*"   -> MulBound(Bound(x[2]), Bound(x[3]))
           [] x[1] = "+"   -> AddBound(Bound(x[2]), Bound(x[3]))
           [] x[1] = "**"  -> PowBound(Bound(x[2]), x[3][1])

(***************************************************************************)
(* The operations of float64 (IEEE 754, round to nearest).                 *)
(***************************************************************************)
RNeg(x) ==
    IF ExactNaN(x) THEN NaN
    ELSE IF IsRounded(x) THEN (IF x[1] = "neg" THEN x[2] ELSE Rounded("neg", x, R(0)))
    ELSE IF ExactZero(x) THEN <<0, -x[2]>>
    ELSE <<-x[1], x[2]>>

\* the sum of two exact numbers, evaluated when its terms stay below Big
AddExact(x, y) ==
    LET d == Max(x[2], y[2])
        p == d \div x[2]
        q == d \div y[2]
    IN  IF Abs(x[1]) <= (Big - 1) \div p /\ Abs(y[1]) <= (Big - 1) \div q
        THEN LET n == x[1] * p + y[1] * q
             IN  IF n = 0 THEN R(0) ELSE Norm(n, d)
        ELSE IF y = <<-x[1], x[2]>> THEN R(0)
        ELSE Rounded("+", x, y)

\* the sum of two exact values of which one is a zero or an infinity
AddSpecial(x, y) ==
    IF ExactInf(x) /\ ExactInf(y) THEN (IF x = y THEN x ELSE NaN)
    ELSE IF ExactInf(x) THEN x
    ELSE IF ExactInf(y) THEN y
    ELSE IF ExactZero(x) /\ ExactZero(y) THEN (IF x = y THEN x ELSE R(0))
    ELSE IF ExactZero(x) THEN y
    ELSE x

\* the sum of two values of which one is a name, a and b their bounds:
\* inf + x for a finite x, 0 + x for an x that is not zero, x + (-x) for a
\* finite x, and the name of the sum otherwise
AddName(x, y, a, b) ==
    IF ExactInf(x) THEN (IF b.fin THEN x ELSE Rounded("+", x, y))
    ELSE IF ExactInf(y) THEN (IF a.fin THEN y ELSE Rounded("+", x, y))
    ELSE IF ExactZero(x) THEN (IF b.ok THEN y ELSE Rounded("+", x, y))
    ELSE IF ExactZero(y) THEN (IF a.ok THEN x ELSE Rounded("+", x, y))
    ELSE IF y = RNeg(x) /\ a.fin THEN R(0)
    ELSE Rounded("+", x, y)

RAdd(x, y) ==
    IF ExactNum(x) /\ ExactNum(y) THEN AddExact(x, y)
    ELSE IF ExactNaN(x) \/ ExactNaN(y) THEN NaN
    ELSE IF IsRounded(x) \/ IsRounded(y) THEN AddName(x, y, Bound(x), Bound(y))
    ELSE AddSpecial(x, y)

\* x - y is x + (-y) in IEEE 754
RSub(x, y) == RAdd(x, RNeg(y))

\* the product of two exact numbers, evaluated when it stays within Big
MulExact(x, y) ==
    IF Abs(x[1]) <= Big \div Abs(y[1]) /\ x[2] <= Big \div y[2]
    THEN Norm(x[1] * y[1], x[2] * y[2])
    ELSE Rounded("*", x, y)

\* the product of two exact values of which one is a zero or an infinity
MulSpecial(x, y) ==
    IF (ExactInf(x) /\ ExactZero(y)) \/ (ExactZero(x) /\ ExactInf(y)) THEN NaN
    ELSE IF ExactInf(x) \/ ExactInf(y) THEN <<Sign(x) * Sign(y), 0>>
    ELSE <<0, Sign(x) * Sign(y)>>

\* the product of two values of which one is a name, a and b their bounds:
\* inf * x for an x that is not zero, 0 * x for a finite x of known sign,
\* 1 * x, -1 * x, a certain overflow, a certain underflow, and the name of
\* the product otherwise
MulName(x, y, a, b) ==
    LET s == a.sg * b.sg
    IN  IF ExactInf(x) THEN (IF b.ok THEN <<Sign(x) * b.sg, 0>> ELSE Rounded("*", x, y))
        ELSE IF ExactInf(y) THEN (IF a.ok THEN <<a.sg * Sign(y), 0>> ELSE Rounded("*", x, y))
        ELSE IF ExactZero(x) \/ ExactZero(y)
        THEN (IF a.fin /\ b.fin /\ s # 0 THEN <<0, s>> ELSE Rounded("*", x, y))
        ELSE IF a.fin /\ b.fin /\ s # 0 /\ a.hi + b.hi <= MinExp - 2 THEN <<0, s>>
        ELSE IF x = R(1) THEN y
        ELSE IF y = R(1) THEN x
        ELSE IF x = R(-1) THEN RNeg(y)
        ELSE IF y = R(-1) THEN RNeg(x)
        ELSE IF a.ok /\ b.ok /\ a.lo + b.lo >= MaxExp THEN <<s, 0>>
        ELSE Rounded("*", x, y)

RMul(x, y) ==
    IF ExactNum(x) /\ ExactNum(y) THEN MulExact(x, y)
    ELSE IF ExactNaN(x) \/ ExactNaN(y) THEN NaN
    ELSE IF IsRounded(x) \/ IsRounded(y) THEN MulName(x, y, Bound(x), Bound(y))
    ELSE MulSpecial(x, y)

RECURSIVE IsPow2(_)
IsPow2(n) == IF n = 1 THEN TRUE
             ELSE IF n < 1 \/ n % 2 = 1 THEN FALSE
             ELSE IsPow2(n \div 2)

\* 1/x is a float64 of the model when x is a signed power of two
Invertible(x) == ExactNum(x) /\ IsPow2(Abs(x[1])) /\ IsPow2(x[2])

RInv(x) == <<Sign(x) * x[2], Abs(x[1])>>

\* n^k for n >= 1 and k >= 0, or 0 when it is above Big
RECURSIVE NatPow(_, _, _)
NatPow(n, k, acc) ==
    IF k = 0 \/ n = 1 THEN acc
    ELSE IF acc > Big \div n THEN 0
    ELSE NatPow(n, k - 1, acc * n)

\* no value: the result is not evaluated
NoValue == <<>>

\* x ** k for an exact number x and k > 0, evaluated when it stays within Big
PowExact(x, k) ==
    LET n == NatPow(Abs(x[1]), k, 1)
        d == NatPow(x[2], k, 1)
    IN  IF n = 0 \/ d = 0 THEN NoValue
        ELSE <<(IF k % 2 = 0 THEN 1 ELSE Sign(x)) * n, d>>

\* x ** k of a zero or an infinity, k # 0
PowSpecial(x, k) ==
    LET s == IF k % 2 = 0 THEN 1 ELSE Sign(x)
    IN  IF ExactZero(x) = (k > 0) THEN <<0, s>> ELSE <<s, 0>>

\* x ** k where it is evaluated: x exact, and the power or the reciprocal
\* and its power within Big
PowValue(x, k) ==
    IF IsRounded(x) THEN NoValue
    ELSE IF ~ExactNum(x) THEN PowSpecial(x, k)
    ELSE IF k > 0 THEN PowExact(x, k)
    ELSE IF Invertible(x) THEN PowExact(RInv(x), -k)
    ELSE NoValue

\* x ** k where it is not evaluated: a certain overflow, a certain
\* underflow, or the name of the power
PowName(x, k, a) ==
    LET s == IF k % 2 = 0 THEN 1 ELSE a.sg
        lo == IF k > 0 THEN k * a.lo ELSE k * a.hi
        hi == IF k > 0 THEN k * a.hi ELSE k * a.lo
    IN  IF ~a.ok \/ Abs(k) > MaxPow THEN Rounded("**", x, R(k))
        ELSE IF lo - 1 >= MaxExp THEN <<s, 0>>
        ELSE IF hi + 1 <= MinExp - 2 THEN <<0, s>>
        ELSE Rounded("**", x, R(k))

\* numpy's x ** k for an integer k
RPow(x, k) ==
    IF k = 0 THEN R(1)
    ELSE IF ExactNaN(x) THEN NaN
    ELSE IF k = 1 THEN x
    ELSE LET v == PowValue(x, k)
         IN  IF v # NoValue THEN v ELSE PowName(x, k, Bound(x))

\* exp overflows above ExpMax and is zero below ExpMin: the largest multiple
\* of 2^-21 whose exp is finite and the smallest whose exp is not zero (an
\* exact number of the model between 709 and 710 or between -746 and -745
\* is a multiple of 2^-21)
ExpMax == <<1488522235, 2097152>>
ExpMin == <<-1562657620, 2097152>>

Floor(x) == x[1] \div x[2]
OnGrid(x, t) == x[1] * (t[2] \div x[2])

ExpOverflows(x) ==
    \/ Floor(x) > Floor(ExpMax)
    \/ Floor(x) = Floor(ExpMax) /\ OnGrid(x, ExpMax) > ExpMax[1]

ExpUnderflows(x) ==
    \/ Floor(x) < Floor(ExpMin)
    \/ Floor(x) = Floor(ExpMin) /\ OnGrid(x, ExpMin) < ExpMin[1]

\* exp of a name x with bounds a: certain when |x| >= 1024 and when
\* |x| <= 2^-55
ExpName(x, a) ==
    IF a.ok /\ a.lo >= 10 THEN (IF a.sg > 0 THEN <<1, 0>> ELSE R(0))
    ELSE IF a.fin /\ a.hi <= -55 THEN R(1)
    ELSE Rounded("exp", x, R(0))

\* numpy.exp of one value
RExp(x) ==
    IF ExactNaN(x) THEN NaN
    ELSE IF IsRounded(x) THEN ExpName(x, Bound(x))
    ELSE IF ExactZero(x) THEN R(1)
    ELSE IF ExactInf(x) THEN (IF Sign(x) > 0 THEN x ELSE R(0))
    ELSE IF ExpOverflows(x) THEN <<1, 0>>
    ELSE IF ExpUnderflows(x) THEN R(0)
    ELSE Rounded("exp", x, R(0))

(***************************************************************************)
(* Arrays: numpy.ndarray of dtype float, as a shape and the elements in    *)
(* row-major order.  Ranks 0, 1 and 2 occur.                               *)
(***************************************************************************)
RECURSIVE Prod(_)
Prod(s) == IF s = <<>> THEN 1 ELSE Head(s) * Prod(Tail(s))

Arr(shape, elems) == [shape |-> shape, elems |-> elems]

\* None: the value of an unset grad.  No array has an empty element list
\* together with an empty shape (a 0-d array has one element).
None == [shape |-> <<>>, elems |-> <<>>]

Scalar(x) == Arr(<<>>, <<x>>)

Pad(s, r) == [k \in 1..r |-> IF k <= r - Len(s) THEN 1 ELSE s[k - (r - Len(s))]]

\* numpy's broadcasting rule on two shapes
CanBroadcast(s1, s2) ==
    LET r == Max(Len(s1), Len(s2))
        p == Pad(s1, r)
        q == Pad(s2, r)
    IN  \A k \in 1..r : p[k] = q[k] \/ p[k] = 1 \/ q[k] = 1

BroadcastShape(s1, s2) ==
    LET r == Max(Len(s1), Len(s2))
        p == Pad(s1, r)
        q == Pad(s2, r)
    IN  [k \in 1..r |-> IF p[k] = 1 THEN q[k] ELSE p[k]]

\* the stride of axis k in a row-major array of shape s
Stride(s, k) == Prod(SubSeq(s, k + 1, Len(s)))

\* coordinate k of the element at 0-based flat position f of shape s
Coord(s, f, k) == (f \div Stride(s, k)) % s[k]

RECURSIVE SumTo(_, _)
SumTo(f, n) == IF n = 0 THEN 0 ELSE f[n] + SumTo(f, n - 1)

\* the element of array a that broadcasting places at 0-based flat position
\* f of the result shape S
BroadcastElem(a, S, f) ==
    LET r == Len(S)
        p == Pad(a.shape, r)
        off == [k \in 1..r |-> IF p[k] = 1 THEN 0 ELSE Coord(S, f, k) * Stride(p, k)]
    IN  a.elems[SumTo(off, r) + 1]

\* the element of a at 1-based flat position f of a result of shape S
Elem(a, S, f) ==
    IF a.shape = S THEN a.elems[f]
    ELSE IF a.shape = <<>> THEN a.elems[1]
    ELSE BroadcastElem(a, S, f - 1)

\* the shape of an elementwise result
ResultShape(a, b) ==
    IF a.shape = b.shape THEN a.shape ELSE BroadcastShape(a.shape, b.shape)

\* a + b, a - b and a * b elementwise, with broadcasting
ArrAdd(a, b) ==
    LET S == ResultShape(a, b)
    IN  Arr(S, [f \in 1..Prod(S) |-> RAdd(Elem(a, S, f), Elem(b, S, f))])

ArrSub(a, b) ==
    LET S == ResultShape(a, b)
    IN  Arr(S, [f \in 1..Prod(S) |-> RSub(Elem(a, S, f), Elem(b, S, f))])

ArrMul(a, b) ==
    LET S == ResultShape(a, b)
    IN  Arr(S, [f \in 1..Prod(S) |-> RMul(Elem(a, S, f), Elem(b, S, f))])

ArrNeg(a) == Arr(a.shape, [f \in 1..Len(a.elems) |-> RNeg(a.elems[f])])
ArrPow(a, k) == Arr(a.shape, [f \in 1..Len(a.elems) |-> RPow(a.elems[f], k)])

\* numpy.exp
ArrExp(a) == Arr(a.shape, [f \in 1..Len(a.elems) |-> RExp(a.elems[f])])

OnesLike(a) == Arr(a.shape, [f \in 1..Len(a.elems) |-> R(1)])
ZerosOf(shape) == Arr(shape, [f \in 1..Prod(shape) |-> R(0)])

\* ndarray.T: the axes reversed
Transpose(a) ==
    IF Len(a.shape) < 2 THEN a
    ELSE LET m == a.shape[1]
             n == a.shape[2]
         IN  Arr(<<n, m>>, [f \in 1..(m * n) |->
                   a.elems[((f - 1) % m) * n + ((f - 1) \div m) + 1]])

\* the operands of @ as matrices: a 1-d left operand is a row, a 1-d right
\* operand is a column
AsRow(a) == IF Len(a.shape) = 1 THEN <<1, a.shape[1]>> ELSE a.shape
AsCol(b) == IF Len(b.shape) = 1 THEN <<b.shape[1], 1>> ELSE b.shape

CanMatmul(a, b) ==
    /\ Len(a.shape) >= 1
    /\ Len(b.shape) >= 1
    /\ AsRow(a)[2] = AsCol(b)[1]

RECURSIVE Dot(_, _, _, _, _, _)
Dot(a, b, i, j, n, k) ==
    \* sum over t in 1..k of A[i][t] * B[t][j], A with k columns, B with n
    IF k = 0 THEN R(0)
    ELSE RAdd(Dot(a, b, i, j, n, k - 1),
              RMul(a.elems[(i - 1) * AsRow(a)[2] + k], b.elems[(k - 1) * n + j]))

Matmul(a, b) ==
    LET m == AsRow(a)[1]
        k == AsRow(a)[2]
        n == AsCol(b)[2]
        shape == (IF Len(a.shape) = 1 THEN <<>> ELSE <<m>>) \o
                 (IF Len(b.shape) = 1 THEN <<>> ELSE <<n>>)
    IN  Arr(shape, [f \in 1..(m * n) |->
                      Dot(a, b, ((f - 1) \div n) + 1, ((f - 1) % n) + 1, n, k)])

(***************************************************************************)
(* str() of the small integers that are coerced or used as exponents       *)
(***************************************************************************)
Digit == <<"0", "1", "2", "3", "4", "5", "6", "7", "8", "9">>

RECURSIVE StrNat(_)
StrNat(n) == IF n < 10 THEN Digit[n + 1] ELSE StrNat(n \div 10) \o Digit[(n % 10) + 1]

Str(n) == IF n < 0 THEN "-" \o StrNat(-n) ELSE StrNat(n)

(***************************************************************************)
(* The state.                                                              *)
(*   tensors  every Tensor object constructed so far; identity = index     *)
(*   trav     the backward traversal of a caller (section 4.4 of the spec) *)
(*   tr       the activation of trace(root) inside draw_function           *)
(***************************************************************************)
VARIABLES tensors, trav, tr

vars == <<tensors, trav, tr>>

Ids == 1..Len(tensors)

\* `lambda: None`, and the closures the operators install.  A closure
\* captures the objects self, other and out of the call that made it.
NoRule == [kind |-> "noop", self |-> 0, other |-> 0, out |-> 0]
Closure(kind, self, other, out) ==
    [kind |-> kind, self |-> self, other |-> other, out |-> out]

\* a variant of Tensor.__init__: requires_grad taken from the operands
Tensor_inherits(data, label, requires_grad, _components, _operator) ==
    [data |-> data,
     label |-> label,
     requires_grad |-> requires_grad /\ _components = <<>>,
     grad |-> None,
     _backward |-> NoRule,
     shape |-> data.shape,
     _components |-> {_components[k] : k \in 1..Len(_components)},
     _args |-> _components,
     _operator |-> _operator]

\* Tensor.__init__.  _args is the tuple passed as _components, kept beside
\* the set built from it.
Tensor(data, label, requires_grad, _components, _operator) ==
    [data |-> data,
     label |-> label,
     requires_grad |-> requires_grad,
     grad |-> None,
     _backward |-> NoRule,
     shape |-> data.shape,
     _components |-> {_components[k] : k \in 1..Len(_components)},
     _args |-> _components,
     _operator |-> _operator]

\* An operand as the caller passes it: a Tensor, or a number to be coerced.
TensorArg(j) == [isTensor |-> TRUE, id |-> j, raw |-> 0]
RawArg(r) == [isTensor |-> FALSE, id |-> 0, raw |-> r]

\* `if not isinstance(other, Tensor): other = Tensor(other, label=str(other))`
Coerce(ts, o) ==
    IF o.isTensor
    THEN [ts |-> ts, id |-> o.id]
    ELSE [ts |-> Append(ts, Tensor(Scalar(R(o.raw)), Str(o.raw), FALSE, <<>>, "")),
          id |-> Len(ts) + 1]

Idle == [phase |-> "idle"]

(***************************************************************************)
(* The backward rules: the closures _backward of the operators, statement  *)
(* by statement.  A rule maps the arena to the arena after the call, with  *)
(* the set of objects whose grad it read and whether it raised (a raise    *)
(* keeps the assignments made before it).                                  *)
(***************************************************************************)
Result(ts, reads, raised) == [ts |-> ts, reads |-> reads, raised |-> raised]

\* the sum of a stored grad and a contribution, an unset grad counting as zero
Accumulate(old, g) ==
    IF old = None \/ g = None \/ ~CanBroadcast(old.shape, g.shape) THEN g ELSE ArrAdd(old, g)

\* a variant of __add__._backward: the contributions are accumulated
AddRule_accumulate(ts, c) ==
    LET s1 == [ts EXCEPT ![c.self].grad = Accumulate(@, ts[c.out].grad)]
        s2 == [s1 EXCEPT ![c.other].grad = Accumulate(@, s1[c.out].grad)]
    IN  Result(s2, {c.out}, FALSE)

\* __add__._backward
AddRule(ts, c) ==
    LET s1 == [ts EXCEPT ![c.self].grad = ts[c.out].grad]
        s2 == [s1 EXCEPT ![c.other].grad = s1[c.out].grad]
    IN  Result(s2, {c.out}, FALSE)

\* __sub__._backward
SubRule(ts, c) ==
    IF ts[c.out].grad = None
    THEN Result(ts, {c.out}, TRUE)
    ELSE LET s1 == [ts EXCEPT ![c.self].grad = ArrNeg(ts[c.out].grad)]
             s2 == [s1 EXCEPT ![c.other].grad = ArrNeg(s1[c.out].grad)]
         IN  Result(s2, {c.out}, FALSE)

\* a variant of __mul__._backward: the product rule of calculus
MulRule_product(ts, c) ==
    IF ts[c.out].grad = None
    THEN Result(ts, {c.out}, TRUE)
    ELSE LET s1 == [ts EXCEPT ![c.self].grad = ArrMul(ts[c.other].data, ts[c.out].grad)]
             s2 == [s1 EXCEPT ![c.other].grad = ArrMul(s1[c.self].data, s1[c.out].grad)]
         IN  Result(s2, {c.out}, FALSE)

\* __mul__._backward
MulRule(ts, c) ==
    IF ts[c.out].grad = None
    THEN Result(ts, {c.out}, TRUE)
    ELSE LET s1 == [ts EXCEPT ![c.self].grad = ArrNeg(ts[c.out].grad)]
             s2 == [s1 EXCEPT ![c.other].grad = ArrNeg(s1[c.out].grad)]
         IN  Result(s2, {c.out}, FALSE)

\* a variant of __truediv__._backward: other.grad computed before self.grad
\* is assigned, from the value self.grad held before the call
DivRule_stale(ts, c) ==
    LET g == ts[c.out].grad
        inv == ArrPow(ts[c.other].data, -1)
        old == ts[c.self].grad
    IN  IF g = None \/ old = None \/ ~CanBroadcast(inv.shape, g.shape)
           \/ ~CanBroadcast(old.shape, BroadcastShape(inv.shape, g.shape))
        THEN Result(ts, {c.out, c.self}, TRUE)
        ELSE LET t == ArrMul(ArrNeg(old), ArrPow(ts[c.other].data, -2))
                 s1 == [ts EXCEPT ![c.self].grad = ArrMul(inv, g)]
                 s2 == [s1 EXCEPT ![c.other].grad = ArrMul(t, g)]
             IN  Result(s2, {c.out, c.self}, FALSE)

\* __truediv__._backward
DivRule(ts, c) ==
    LET g == ts[c.out].grad
        inv == ArrPow(ts[c.other].data, -1)
    IN  IF g = None \/ ~CanBroadcast(inv.shape, g.shape)
        THEN Result(ts, {c.out}, TRUE)
        ELSE LET s1 == [ts EXCEPT ![c.self].grad = ArrMul(inv, g)]
                 t == ArrMul(ArrNeg(s1[c.self].grad), ArrPow(s1[c.other].data, -2))
                 s2 == [s1 EXCEPT ![c.other].grad = ArrMul(t, s1[c.out].grad)]
             IN  Result(s2, {c.out, c.self}, FALSE)

\* __matmul__._backward
MatmulRule(ts, c) ==
    LET g == ts[c.out].grad
    IN  IF g = None \/ ~CanMatmul(g, Transpose(ts[c.other].data))
        THEN Result(ts, {c.out}, TRUE)
        ELSE LET s1 == [ts EXCEPT ![c.self].grad = Matmul(g, Transpose(ts[c.other].data))]
             IN  IF ~CanMatmul(Transpose(s1[c.self].data), s1[c.out].grad)
                 THEN Result(s1, {c.out}, TRUE)
                 ELSE Result([s1 EXCEPT ![c.other].grad =
                                  Matmul(Transpose(s1[c.self].data), s1[c.out].grad)],
                             {c.out}, FALSE)

\* exp._backward
ExpRule(ts, c) ==
    LET g == ts[c.out].grad
    IN  IF g = None \/ ~CanBroadcast(ts[c.self].shape, g.shape)
        THEN Result(ts, {c.out}, TRUE)
        ELSE Result([ts EXCEPT ![c.self].grad = ArrMul(ArrExp(ts[c.self].data), g)],
                    {c.out}, FALSE)

\* a variant of __neg__._backward: the contribution is added to the grad the
\* operand holds
NegRule_accumulate(ts, c) ==
    IF ts[c.out].grad = None
    THEN Result(ts, {c.out}, TRUE)
    ELSE Result([ts EXCEPT ![c.self].grad = Accumulate(@, ArrNeg(ts[c.out].grad))],
                {c.out, c.self}, FALSE)

\* __neg__._backward
NegRule(ts, c) ==
    IF ts[c.out].grad = None
    THEN Result(ts, {c.out}, TRUE)
    ELSE Result([ts EXCEPT ![c.self].grad = ArrNeg(ts[c.out].grad)], {c.out}, FALSE)

\* T._backward
TRule(ts, c) ==
    IF ts[c.out].grad = None
    THEN Result(ts, {c.out}, TRUE)
    ELSE Result([ts EXCEPT ![c.self].grad = Transpose(ts[c.out].grad)], {c.out}, FALSE)

\* the call t._backward() on tensor n
CallBackward(ts, n) ==
    LET c == ts[n]._backward
    IN  CASE c.kind = "noop" -> Result(ts, {}, FALSE)
          [] c.kind = "+" -> AddRule(ts, c)
          [] c.kind = "-" -> SubRule(ts, c)
          [] c.kind = "*" -> MulRule(ts, c)
          [] c.kind = "/" -> DivRule(ts, c)
          [] c.kind = "@" -> MatmulRule(ts, c)
          [] c.kind = "exp" -> ExpRule(ts, c)
          [] c.kind = "neg" -> NegRule(ts, c)
          [] c.kind = "T" -> TRule(ts, c)

(***************************************************************************)
(* The operations.  An operation that raises (shapes that do not           *)
(* broadcast, @ on a 0-d array) constructs no reachable object and is not  *)
(* a step; division by zero and exp do not raise.  No call is made while   *)
(* a traversal or draw_function is running: the program is                 *)
(* single-threaded.  The bound on the number of objects is set by the      *)
(* specification, not by the operations.                                   *)
(***************************************************************************)
NoCallActive == trav.phase = "idle" /\ tr.phase = "idle"

\* the tensors after `out = Tensor(...)` and, when installed, `out._backward = _backward`
WithOut(ts, out, kind, installed, self, other) ==
    Append(ts, IF installed
               THEN [out EXCEPT !._backward = Closure(kind, self, other, Len(ts) + 1)]
               ELSE out)

Constructed(ts) ==
    /\ tensors' = ts
    /\ UNCHANGED <<trav, tr>>

\* Tensor(data, requires_grad=rg) called by the user
NewTensor(d, rg) ==
    /\ NoCallActive
    /\ Constructed(Append(tensors, Tensor(d, "", rg, <<>>, "")))

\* zeros(shape, requires_grad=rg)
zeros(shape, rg) ==
    /\ NoCallActive
    /\ Constructed(Append(tensors, Tensor(ZerosOf(shape), "", rg, <<>>, "")))

\* self + other
Add(i, o) ==
    LET c == Coerce(tensors, o)
        a == c.ts[i].data
        b == c.ts[c.id].data
    IN  /\ NoCallActive
        /\ CanBroadcast(a.shape, b.shape)
        /\ Constructed(WithOut(c.ts, Tensor(ArrAdd(a, b), "", TRUE, <<i, c.id>>, "+"),
                               "+", TRUE, i, c.id))

\* a variant of __sub__: the rule installed unconditionally, as __add__ does
Sub_unconditional(i, o) ==
    LET c == Coerce(tensors, o)
        a == c.ts[i].data
        b == c.ts[c.id].data
    IN  /\ NoCallActive
        /\ CanBroadcast(a.shape, b.shape)
        /\ Constructed(WithOut(c.ts, Tensor(ArrSub(a, b), "", TRUE, <<i, c.id>>, "-"),
                               "-", TRUE, i, c.id))

\* self - other
Sub(i, o) ==
    LET c == Coerce(tensors, o)
        a == c.ts[i].data
        b == c.ts[c.id].data
    IN  /\ NoCallActive
        /\ CanBroadcast(a.shape, b.shape)
        /\ Constructed(WithOut(c.ts, Tensor(ArrSub(a, b), "", TRUE, <<i, c.id>>, "-"),
                               "-", c.ts[i].requires_grad, i, c.id))

\* self * other
Mul(i, o) ==
    LET c == Coerce(tensors, o)
        a == c.ts[i].data
        b == c.ts[c.id].data
    IN  /\ NoCallActive
        /\ CanBroadcast(a.shape, b.shape)
        /\ Constructed(WithOut(c.ts, Tensor(ArrMul(a, b), "", TRUE, <<i, c.id>>, "*"),
                               "*", c.ts[i].requires_grad, i, c.id))

\* self ** other, other an int
Pow(i, k) ==
    LET ts1 == Append(tensors, Tensor(Scalar(R(k)), Str(k), FALSE, <<>>, ""))
        a == tensors[i].data
    IN  /\ NoCallActive
        /\ Constructed(Append(ts1, Tensor(ArrPow(a, k), "", TRUE, <<i, Len(ts1)>>, "**")))

\* self / other
TrueDiv(i, o) ==
    LET c == Coerce(tensors, o)
        a == c.ts[i].data
        b == c.ts[c.id].data
    IN  /\ NoCallActive
        /\ CanBroadcast(a.shape, b.shape)
        /\ Constructed(WithOut(c.ts,
                               Tensor(ArrMul(a, ArrPow(b, -1)), "", TRUE, <<i, c.id>>, "/"),
                               "/", c.ts[i].requires_grad, i, c.id))

\* self @ other
MatMul(i, o) ==
    LET c == Coerce(tensors, o)
        a == c.ts[i].data
        b == c.ts[c.id].data
    IN  /\ NoCallActive
        /\ CanMatmul(a, b)
        /\ Constructed(WithOut(c.ts, Tensor(Matmul(a, b), "", TRUE, <<i, c.id>>, "@"),
                               "@", c.ts[i].requires_grad, i, c.id))

\* self.exp()
exp(i) ==
    LET a == tensors[i].data
    IN  /\ NoCallActive
        /\ Constructed(WithOut(tensors, Tensor(ArrExp(a), "", TRUE, <<i>>, "exp"),
                               "exp", tensors[i].requires_grad, i, 0))

\* -self
Neg(i) ==
    /\ NoCallActive
    /\ Constructed(WithOut(tensors, Tensor(ArrNeg(tensors[i].data), "", TRUE, <<i>>, "neg"),
                           "neg", tensors[i].requires_grad, i, 0))

\* a variant of T: the array of self is transposed in place as well
T_inplace(i) ==
    /\ NoCallActive
    /\ Constructed(WithOut([tensors EXCEPT ![i].data = Transpose(@),
                                           ![i].shape = Transpose(tensors[i].data).shape],
                           Tensor(Transpose(tensors[i].data), "", TRUE, <<i>>, "T"),
                           "T", tensors[i].requires_grad, i, 0))

\* self.T()
T(i) ==
    /\ NoCallActive
    /\ Constructed(WithOut(tensors, Tensor(Transpose(tensors[i].data), "", TRUE, <<i>>, "T"),
                           "T", tensors[i].requires_grad, i, 0))

\* t.grad = g, by the caller
SeedGrad(i, g) ==
    /\ NoCallActive
    /\ tensors' = [tensors EXCEPT ![i].grad = g]
    /\ UNCHANGED <<trav, tr>>

\* t._backward(), by the caller
Backward(n) ==
    LET r == CallBackward(tensors, n)
    IN  /\ NoCallActive
        /\ tensors' = r.ts
        /\ UNCHANGED <<trav, tr>>

(***************************************************************************)
(* The graph: operands, consumers, reachability.                           *)
(***************************************************************************)
Consumers(ts, x) == {m \in 1..Len(ts) : x \in ts[m]._components}

RECURSIVE ReachFrom(_, _)
ReachFrom(ts, S) ==
    LET more == S \cup UNION {ts[v]._components : v \in S}
    IN  IF more = S THEN S ELSE ReachFrom(ts, more)

Reachable(ts, root) == ReachFrom(ts, {root})

(***************************************************************************)
(* The backward traversal of section 4.4: seed root.grad, then call the    *)
(* _backward of every node reachable from root once, a node after all the  *)
(* nodes that consume it.  An exception of a rule ends the traversal.      *)
(***************************************************************************)
StartTraversal(root, g) ==
    /\ NoCallActive
    /\ tensors' = [tensors EXCEPT ![root].grad = g]
    /\ trav' = [phase |-> "running", root |-> root, seed |-> g,
                pending |-> Reachable(tensors, root), order |-> <<>>]
    /\ UNCHANGED tr

TraversalStep(n) ==
    LET r == CallBackward(tensors, n)
        left == trav.pending \ {n}
    IN  /\ trav.phase = "running"
        /\ n \in trav.pending
        /\ Consumers(tensors, n) \cap trav.pending = {}
        /\ tensors' = r.ts
        /\ trav' = [trav EXCEPT !.phase = IF r.raised THEN "raised"
                                          ELSE IF left = {} THEN "done" ELSE "running",
                                !.pending = IF r.raised THEN @ ELSE left,
                                !.order = IF r.raised THEN @ ELSE Append(@, n)]
        /\ UNCHANGED tr

\* the traversal returns, or its exception reaches the caller: the program
\* goes on with the grads the traversal left
EndTraversal ==
    /\ trav.phase \in {"done", "raised"}
    /\ trav' = Idle
    /\ UNCHANGED <<tensors, tr>>

(***************************************************************************)
(* trace(root) of draw_function: the recursion of build(v) as a stack of   *)
(* activations.  visits counts the executions of nodes.add(v).             *)
(*                                                                         *)
(* The interpreter bounds the depth of the stack: a call that would take   *)
(* the stack past the recursion limit raises RecursionError, which nothing *)
(* in draw_function catches.  Every call takes a level, a call of a method *)
(* of a set as well as an activation of build.  frames is the number of    *)
(* frames in use where draw_function is called (1 at the top level of a    *)
(* script).                                                                *)
(***************************************************************************)
\* sys.getrecursionlimit() of CPython, unless the program changes it
RecursionLimit == 1000

\* the level of the running activation of build: the caller's frames,
\* draw_function, trace, and the activations of build
StackDepth(t) == t.frames + 2 + Len(t.stack)

\* a call made by the running activation stays within the limit
CallFits(t) == StackDepth(t) + 1 <= RecursionLimit

Frame(v, pc, todo) == [v |-> v, pc |-> pc, todo |-> todo]

\* nodes, edges = set(), set(); build(root)
TraceStart(root, frames) ==
    /\ NoCallActive
    /\ tr' = [phase |-> "running",
              root |-> root, frames |-> frames, nodes |-> {}, edges |-> {},
              stack |-> <<Frame(root, "enter", {})>>,
              visits |-> [i \in Ids |-> 0]]
    /\ UNCHANGED <<tensors, trav>>

Pop(stack) == SubSeq(stack, 1, Len(stack) - 1)

\* what the return of an activation leaves: the caller's stack, or the
\* result of trace when build(root) returns
Returned(t) ==
    [t EXCEPT !.stack = Pop(@),
              !.phase = IF Len(t.stack) = 1 THEN "done" ELSE "running"]

\* build(v): `if v not in nodes: nodes.add(v)`, else return.  The call of
\* nodes.add raises RecursionError when the activation is at the limit; a
\* visit of a node already in nodes calls nothing and returns
BuildEnter ==
    /\ tr.phase = "running"
    /\ LET top == tr.stack[Len(tr.stack)]
       IN  /\ top.pc = "enter"
           /\ tr' = IF top.v \in tr.nodes THEN Returned(tr)
                    ELSE IF ~CallFits(tr) THEN [tr EXCEPT !.phase = "raised"]
                    ELSE [tr EXCEPT !.nodes = @ \cup {top.v},
                                    !.visits[top.v] = @ + 1,
                                    !.stack[Len(tr.stack)] =
                                        Frame(top.v, "loop", tensors[top.v]._components)]
    /\ UNCHANGED <<tensors, trav>>

\* `edges.add((component, v))` and the call build(component) in the
\* activation of build(v).  Both calls fit: nodes.add(v) was called from
\* the same level
Iterate(t, component) ==
    LET top == t.stack[Len(t.stack)]
    IN  [t EXCEPT !.edges = @ \cup {<<component, top.v>>},
                  !.stack = Append([@ EXCEPT ![Len(t.stack)].todo = @ \ {component}],
                                   Frame(component, "enter", {}))]

\* one iteration of `for component in v._components`, or the end of the loop
BuildLoop ==
    /\ tr.phase = "running"
    /\ LET top == tr.stack[Len(tr.stack)]
       IN  /\ top.pc = "loop"
           /\ \/ /\ top.todo = {}
                 /\ tr' = Returned(tr)
              \/ \E component \in top.todo : tr' = Iterate(tr, component)
    /\ UNCHANGED <<tensors, trav>>

\* the rest of draw_function: the diagram is built from nodes and edges and
\* returned; nodes and edges are locals and are gone
Render ==
    /\ tr.phase = "done"
    /\ tr' = Idle
    /\ UNCHANGED <<tensors, trav>>

\* the RecursionError leaves build, trace and draw_function: nothing is
\* returned, nodes and edges are gone, no tensor has changed
Unwind ==
    /\ tr.phase = "raised"
    /\ tr' = Idle
    /\ UNCHANGED <<tensors, trav>>

(***************************************************************************)
(* The inputs the specifications draw from.                                *)
(***************************************************************************)
LeafData == { Arr(<<2, 1>>, <<R(1), R(2)>>) }

TravLeafData == { Arr(<<2>>, <<R(1), R(2)>>) }

ZeroShapes == { <<>> }

RawValues == { 2 }

Exponents == { 2, -1 }

Operands == {TensorArg(j) : j \in Ids} \cup {RawArg(r) : r \in RawValues}

Seeds(i) == { OnesLike(tensors[i].data) }

\* the tensors nothing consumes: the outputs a caller differentiates
Outputs == {i \in Ids : Consumers(tensors, i) = {}}

TravSeeds(i) == { OnesLike(tensors[i].data), ZerosOf(tensors[i].shape) }

\* the frames in use where draw_function is called: the top level of a
\* script, and a call made deep in a recursion of the caller, where a first
\* visit at depth 3 fits and one at depth 4 does not
CallerFrames == { 1, RecursionLimit - 6 }

\* the objects a call constructs: out, and the coerced operand if any
New(o) == IF o.isTensor THEN 1 ELSE 2

\* there is room for n more objects under the bound m
Room(m, n) == Len(tensors) + n <= m

Init ==
    /\ tensors = <<>>
    /\ trav = Idle
    /\ tr = Idle

\* any sequence of constructions, operator applications, assignments to
\* grad and calls of _backward
Next ==
    \/ \E d \in LeafData, rg \in BOOLEAN : Room(MaxTensors, 1) /\ NewTensor(d, rg)
    \/ \E i \in Ids, o \in Operands : Room(MaxTensors, New(o)) /\ Add(i, o)
    \/ \E i \in Ids, o \in Operands : Room(MaxTensors, New(o)) /\ Sub(i, o)
    \/ \E i \in Ids, o \in Operands : Room(MaxTensors, New(o)) /\ Mul(i, o)
    \/ \E i \in Ids, o \in Operands : Room(MaxTensors, New(o)) /\ TrueDiv(i, o)
    \/ \E i \in Ids, o \in Operands : Room(MaxTensors, New(o)) /\ MatMul(i, o)
    \/ \E i \in Ids, k \in Exponents : Room(MaxTensors, 2) /\ Pow(i, k)
    \/ \E i \in Ids : Room(MaxTensors, 1) /\ exp(i)
    \/ \E i \in Ids : Room(MaxTensors, 1) /\ Neg(i)
    \/ \E i \in Ids : Room(MaxTensors, 1) /\ T(i)
    \/ \E i \in Ids : \E g \in Seeds(i) : SeedGrad(i, g)
    \/ \E n \in Ids : Backward(n)

Spec == Init /\ [][Next]_vars

\* graphs are built and differentiated by backward traversals
NextTraversal ==
    \/ \E d \in TravLeafData : Room(TravMaxTensors, 1) /\ NewTensor(d, TRUE)
    \/ \E i \in Ids, o \in Operands : Room(TravMaxTensors, New(o)) /\ Add(i, o)
    \/ \E i \in Ids : Room(TravMaxTensors, 1) /\ Neg(i)
    \/ \E root \in Outputs : \E g \in TravSeeds(root) : StartTraversal(root, g)
    \/ \E n \in Ids : TraversalStep(n)
    \/ EndTraversal

SpecTraversal == Init /\ [][NextTraversal]_vars

\* graphs are built and drawn
TraceStep == BuildEnter \/ BuildLoop

NextTrace ==
    \/ \E s \in ZeroShapes : Room(TraceMaxTensors, 1) /\ zeros(s, TRUE)
    \/ \E i \in Ids, o \in Operands : Room(TraceMaxTensors, New(o)) /\ Add(i, o)
    \/ \E i \in Ids : Room(TraceMaxTensors, 2) /\ Pow(i, 2)
    \/ \E i \in Ids : Room(TraceMaxTensors, 1) /\ Neg(i)
    \/ \E root \in Ids, frames \in CallerFrames : TraceStart(root, frames)
    \/ BuildEnter
    \/ BuildLoop
    \/ Render
    \/ Unwind

\* trace runs to completion: nothing suspends it
SpecTrace == Init /\ [][NextTrace]_vars /\ WF_vars(TraceStep)
(***************************************************************************)
(* Properties.                                                             *)
(***************************************************************************)
Self(n) == tensors[n]._args[1]
Other(n) == tensors[n]._args[2]
Installed(n) == tensors[n]._backward.kind # "noop"

\* C1: for out = a * b and out = a - b built with a.requires_grad, a call of
\* out's backward rule with out.grad = g leaves a.grad = -g and b.grad = -g,
\* whatever b.requires_grad is.
C1_MulSubRuleNegates ==
    [][\A n \in Ids :
          ( /\ tensors[n]._operator \in {"*", "-"}
            /\ tensors[Self(n)].requires_grad
            /\ tensors[n].grad # None
            /\ Backward(n) )
          => /\ tensors'[Self(n)].grad = ArrNeg(tensors[n].grad)
             /\ tensors'[Other(n)].grad = ArrNeg(tensors[n].grad)]_vars

\* a product of two distinct tensors, the second without requires_grad, whose
\* rule has negated a grad with more than one element into both operands
C1_Witness ==
    \E n \in Ids :
        /\ tensors[n]._operator = "*"
        /\ Self(n) # Other(n)
        /\ tensors[Self(n)].requires_grad
        /\ ~tensors[Other(n)].requires_grad
        /\ tensors[n].grad = OnesLike(tensors[n].data)
        /\ Len(tensors[n].grad.elems) > 1
        /\ tensors[Self(n)].grad = ArrNeg(tensors[n].grad)
        /\ tensors[Other(n)].grad = ArrNeg(tensors[n].grad)

\* C2: every tensor made by a + b has data a.data + b.data, operands {a, b},
\* operator "+" and requires_grad true, also when a and b are one object.
C2_AddOutput ==
    \A n \in Ids :
        tensors[n]._backward.kind = "+"
        => LET a == tensors[n]._backward.self
               b == tensors[n]._backward.other
           IN  /\ tensors[n]._backward.out = n
               /\ tensors[n].data = ArrAdd(tensors[a].data, tensors[b].data)
               /\ tensors[n]._components = {a, b}
               /\ tensors[n]._operator = "+"
               /\ tensors[n].requires_grad = TRUE

\* a + a for a = [[1], [2]]
C2_Witness ==
    \E n \in Ids :
        /\ tensors[n]._operator = "+"
        /\ Self(n) = Other(n)
        /\ Cardinality(tensors[n]._components) = 1
        /\ tensors[n].data = Arr(<<2, 1>>, <<R(2), R(4)>>)

\* C3: after the traversal from out = a + b seeded with ones_like(out.data),
\* a.grad and b.grad are ones of the shape of a and of b, for every a and b,
\* whatever their requires_grad flags are.
C3_AddGradOnes ==
    ( /\ trav.phase = "done"
      /\ tensors[trav.root]._operator = "+"
      /\ trav.seed = OnesLike(tensors[trav.root].data) )
    => \A x \in tensors[trav.root]._components :
           tensors[x].grad = OnesLike(tensors[x].data)

\* the longest chain of operands from v down to a leaf, counted in nodes
RECURSIVE Depth(_, _)
Depth(ts, v) ==
    IF ts[v]._components = {} THEN 1
    ELSE 1 + CHOOSE m \in {Depth(ts, c) : c \in ts[v]._components} :
                 \A c \in ts[v]._components : Depth(ts, c) <= m

EdgesAmong(S) == UNION {{<<c, v>> : c \in tensors[v]._components} : v \in S}

\* what a finished trace returns: the nodes reachable from root and the
\* (operand, consumer) pairs among them, every node visited once
TraceExact ==
    tr.phase = "done"
    => LET reach == Reachable(tensors, tr.root)
       IN  /\ tr.nodes = reach
           /\ tr.edges = EdgesAmong(reach)
           /\ \A v \in Ids : tr.visits[v] = IF v \in reach THEN 1 ELSE 0

\* C4: trace(root) terminates on any graph built by the operators and
\* returns the nodes reachable from root and the (operand, consumer) pairs
\* among them, every node (the shared leaf of a diamond too) visited once.
C4_TraceTerminatesExact ==
    /\ []TraceExact
    /\ (tr.phase = "running") ~> (tr.phase = "done")

\* the deepest first visit that fits: nodes.add(v) is called one level above
\* the activation of build(v)
FirstVisitDepthMax(frames) == RecursionLimit - frames - 3

\* what holds of trace: it ends, a finished trace is exact, and it raises
\* only on a graph deeper than the recursion limit allows
TraceExactWithinLimit ==
    /\ []TraceExact
    /\ [](tr.phase = "raised"
            => Depth(tensors, tr.root) > FirstVisitDepthMax(tr.frames))
    /\ (tr.phase = "running") ~> (tr.phase \in {"done", "raised"})

\* a trace of a diamond as deep as the limit allows, the shared leaf met
\* again one level deeper than its first visit
RevisitAtLimit ==
    /\ tr.phase = "running"
    /\ Len(tr.stack) = FirstVisitDepthMax(tr.frames) + 1
    /\ tr.stack[Len(tr.stack)].v \in tr.nodes

\* a finished trace of a diamond: a leaf with two consumers, both reachable
\* from the root, visited once, with its two edges
DiamondTraced ==
    /\ tr.phase = "done"
    /\ \E x \in tr.nodes :
          /\ tensors[x]._components = {}
          /\ tr.visits[x] = 1
          /\ \E c1, c2 \in tr.nodes :
                /\ c1 # c2
                /\ c1 # tr.root
                /\ c2 # tr.root
                /\ {c1, c2} \subseteq tensors[tr.root]._components
                /\ {<<x, c1>>, <<x, c2>>} \subseteq tr.edges

\* C5: a call of the rule of out = self op other, op one of - * / @ exp neg T
\* applied while self.requires_grad was false, changes the grad of no
\* operand; a call of the rule of out = a ** n changes no grad.
C5_NoRuleWithoutRequiresGrad ==
    [][\A n \in Ids :
          /\ ( /\ tensors[n]._operator \in {"-", "*", "/", "@", "exp", "neg", "T"}
               /\ ~tensors[Self(n)].requires_grad
               /\ Backward(n) )
             => \A x \in tensors[n]._components : tensors'[x].grad = tensors[x].grad
          /\ ( /\ tensors[n]._operator = "**"
               /\ Backward(n) )
             => \A x \in Ids : tensors'[x].grad = tensors[x].grad]_vars

\* a difference self - other, self without and other with requires_grad,
\* whose grad is set while the operands' grads are not
C5_Witness ==
    \E n \in Ids :
        /\ tensors[n]._operator = "-"
        /\ Self(n) # Other(n)
        /\ ~tensors[Self(n)].requires_grad
        /\ tensors[Other(n)].requires_grad
        /\ tensors[n].grad # None
        /\ tensors[Self(n)].grad = None
        /\ tensors[Other(n)].grad = None

\* C6: when grads are seeded with arrays of their tensor's shape and rules
\* are called, every grad that is set has the shape of its tensor's data.
C6_GradShape ==
    \A i \in Ids : tensors[i].grad # None => tensors[i].grad.shape = tensors[i].shape

\* C7: a step changes the data, shape, operands, operator and requires_grad
\* of no existing tensor, and no tensor is reachable from its own operands.
Acyclic == \A i \in Ids : i \notin ReachFrom(tensors, tensors[i]._components)

C7_OnlyGradWritten ==
    /\ [][\A i \in Ids :
             /\ i <= Len(tensors')
             /\ tensors'[i].data = tensors[i].data
             /\ tensors'[i].shape = tensors[i].shape
             /\ tensors'[i]._components = tensors[i]._components
             /\ tensors'[i]._operator = tensors[i]._operator
             /\ tensors'[i].requires_grad = tensors[i].requires_grad]_vars
    /\ []Acyclic

\* a transposed tensor whose rule has written the grad of its operand
C7_Witness ==
    \E n \in Ids :
        /\ tensors[n]._operator = "T"
        /\ tensors[n].grad # None
        /\ tensors[Self(n)].shape = <<2, 1>>
        /\ tensors[Self(n)].grad = Transpose(tensors[n].grad)
        /\ tensors[Self(n)].data = Transpose(tensors[n].data)

\* C8, as claimed: a call of any backward rule reads the grad of its own node
\* only, and the grads it leaves in the operands do not depend on the grads
\* they held.
Unset(ts, S) == [i \in 1..Len(ts) |-> IF i \in S THEN [ts[i] EXCEPT !.grad = None] ELSE ts[i]]

Overwrites(n) ==
    LET r == CallBackward(tensors, n)
        u == CallBackward(Unset(tensors, tensors[n]._components), n)
    IN  (Installed(n) /\ ~r.raised)
        => \A x \in tensors[n]._components : r.ts[x].grad = u.ts[x].grad

C8_ReadsOwnGradOnly ==
    \A n \in Ids : CallBackward(tensors, n).reads \subseteq {n} /\ Overwrites(n)

\* C8, amended: the rules of + - * @ exp neg T read the grad of their own
\* node only; the rule of / reads out.grad and then self.grad, which it has
\* assigned in the same call; the grads any rule leaves in the operands do
\* not depend on the grads they held.
C8_ReadsOwnGradOrWritten ==
    \A n \in Ids :
        /\ CallBackward(tensors, n).reads \subseteq
              (IF tensors[n]._backward.kind = "/" THEN {n, Self(n)} ELSE {n})
        /\ Overwrites(n)

\* a quotient and a negation whose operands hold grads that a call of their
\* rules replaces by different values
C8_Witness ==
    \A k \in {"/", "neg"} :
        \E n \in Ids :
            LET r == CallBackward(tensors, n)
            IN  /\ tensors[n]._backward.kind = k
                /\ ~r.raised
                /\ tensors[Self(n)].grad # None
                /\ r.ts[Self(n)].grad # tensors[Self(n)].grad
                /\ r.reads = (IF k = "/" THEN {n, Self(n)} ELSE {n})

\* C9: the contribution of consumer c to the grad of its operand x
Contribution(c, x) == CallBackward(Unset(tensors, {x}), c).ts[x].grad

Position(c) == CHOOSE k \in 1..Len(trav.order) : trav.order[k] = c

Writers(x) ==
    {c \in Consumers(tensors, x) :
        Installed(c) /\ \E k \in 1..Len(trav.order) : trav.order[k] = c}

LastWriter(x) == CHOOSE c \in Writers(x) : \A d \in Writers(x) : Position(d) <= Position(c)

\* a grad of the traversals, whose elements are exact, is 0.0 or -0.0 throughout
ZeroGrad(g) == \A f \in 1..Len(g.elems) : ExactZero(g.elems[f])

IsSum(v, g1, g2) ==
    /\ g1 # None
    /\ g2 # None
    /\ CanBroadcast(g1.shape, g2.shape)
    /\ v = ArrAdd(g1, g2)

\* C9, as claimed: after a traversal the grad of a node with two (or more)
\* consumers whose rules are installed is the contribution of the consumer
\* that ran last, and never the sum of that and an earlier contribution.
C9_LastWriterNeverSum_AsClaimed ==
    trav.phase = "done"
    => \A x \in Ids :
           Cardinality(Writers(x)) >= 2
           => /\ tensors[x].grad = Contribution(LastWriter(x), x)
              /\ \A c \in Writers(x) \ {LastWriter(x)} :
                    ~IsSum(tensors[x].grad, Contribution(c, x),
                           Contribution(LastWriter(x), x))

\* C9, amended: it is the contribution of the consumer that ran last, and
\* is the sum of that and an earlier one only when the earlier contribution
\* is all zeros.
C9_LastWriterWins ==
    trav.phase = "done"
    => \A x \in Ids :
           Cardinality(Writers(x)) >= 2
           => /\ tensors[x].grad = Contribution(LastWriter(x), x)
              /\ \A c \in Writers(x) \ {LastWriter(x)} :
                    IsSum(tensors[x].grad, Contribution(c, x),
                          Contribution(LastWriter(x), x))
                    => ZeroGrad(Contribution(c, x))

\* a finished traversal in which two consumers that do not consume each
\* other contributed different non-zero grads to a shared operand
C9_Witness ==
    /\ trav.phase = "done"
    /\ \E x \in Ids :
          /\ Cardinality(Writers(x)) = 2
          /\ \E c \in Writers(x) \ {LastWriter(x)} :
                /\ c \notin Reachable(tensors, LastWriter(x))
                /\ LastWriter(x) \notin Reachable(tensors, c)
                /\ Contribution(c, x) # None
                /\ ~ZeroGrad(Contribution(c, x))
                /\ Contribution(c, x) # Contribution(LastWriter(x), x)
                /\ tensors[x].grad = Contribution(LastWriter(x), x)

\* C10: the grads a call of the rule of out = a / b leaves in a and b are
\* functions of b.data and out.grad: other.data**-1 * g in a and
\* -(other.data**-1 * g) * other.data**-2 * g in b, whatever a.grad and
\* b.grad held; when a and b are one object it keeps the second.
DivSelfGrad(bdata, g) == ArrMul(ArrPow(bdata, -1), g)
DivOtherGrad(bdata, g) ==
    ArrMul(ArrMul(ArrNeg(ArrMul(ArrPow(bdata, -1), g)), ArrPow(bdata, -2)), g)

C10_DivRuleIgnoresOldGrads ==
    \A n \in Ids :
        ( /\ tensors[n]._backward.kind = "/"
          /\ tensors[n].grad # None
          /\ CanBroadcast(tensors[Other(n)].shape, tensors[n].grad.shape) )
        => LET r == CallBackward(tensors, n)
               b == tensors[Other(n)].data
               g == tensors[n].grad
           IN  /\ ~r.raised
               /\ r.ts[Other(n)].grad = DivOtherGrad(b, g)
               /\ Self(n) # Other(n) => r.ts[Self(n)].grad = DivSelfGrad(b, g)

\* a quotient a / 2 of two distinct tensors whose rule has run
C10_Witness ==
    \E n \in Ids :
        /\ tensors[n]._backward.kind = "/"
        /\ Self(n) # Other(n)
        /\ tensors[n].grad # None
        /\ tensors[Other(n)].data = Scalar(R(2))
        /\ tensors[Self(n)].grad = DivSelfGrad(tensors[Other(n)].data, tensors[n].grad)
        /\ tensors[Other(n)].grad = DivOtherGrad(tensors[Other(n)].data, tensors[n].grad)

=============================================================================
